---- MODULE Spec2Model ----
(***************************************************************************)
(* Pixen: the particle sandbox of src/main.rs.  One GameField owns the     *)
(* pixels and the gravity fields; the main loop runs update(), then        *)
(* snake_bounds(), then render() once per frame.                           *)
(*                                                                         *)
(* f32 values are fixed-point integers: the value v is the integer         *)
(* v * Scale, and every arithmetic result is rounded to that resolution.   *)
(***************************************************************************)
EXTENDS Integers, Sequences, FiniteSets

\* Fixed-point resolution: 1.0 is Scale units.
Scale == 4

\* Frames the main loop runs under Spec (all inputs).
MaxFrames == 2

\* Frames the main loop runs under SpecFields (mouse inputs only).
FieldFrames == 3

\* Frames the main loop runs under SpecOrder (mouse, two cursor points).
OrderFrames == 5

\* main.rs:89, the radius within which the middle button finds a field.
RemoveTolerance == 10

F(n) == n * Scale

Abs(n) == IF n < 0 THEN 0 - n ELSE n

Sign(n) == IF n < 0 THEN 0 - 1 ELSE 1

\* n / d rounded to the nearest unit (halves away from zero), d # 0.
RoundDiv(n, d) == Sign(n) * Sign(d) * ((2 * Abs(n) + Abs(d)) \div (2 * Abs(d)))

\* f32 multiplication and division at the model's resolution.
FMul(a, b) == RoundDiv(a * b, Scale)

FDivide(a, b) == RoundDiv(a * Scale, b)

RECURSIVE SqrtSearch(_, _, _)
\* The least r in lo+1..hi with r*r >= n, given lo*lo < n <= hi*hi.
SqrtSearch(lo, hi, n) ==
    IF hi - lo <= 1 THEN hi
    ELSE LET mid == (lo + hi) \div 2
         IN IF mid * mid >= n THEN SqrtSearch(lo, mid, n)
                              ELSE SqrtSearch(mid, hi, n)

\* f32::sqrt of a sum of two squared fixed-point values, rounded up to the
\* resolution, so that Sqrt(dx*dx + dy*dy) <= r exactly when the true
\* distance is at most r.
Sqrt(n) == IF n = 0 THEN 0 ELSE SqrtSearch(0, IF n > 32768 THEN 32768 ELSE n, n)

----------------------------------------------------------------------------
(* vector.rs *)

Vector(x, y) == [x |-> x, y |-> y]

VectorFrom(num) == [x |-> num, y |-> num]

VAdd(a, b) == [x |-> a.x + b.x, y |-> a.y + b.y]

VSub(a, b) == [x |-> a.x - b.x, y |-> a.y - b.y]

VMul(a, b) == [x |-> FMul(a.x, b.x), y |-> FMul(a.y, b.y)]

VDiv(a, b) == [x |-> FDivide(a.x, b.x), y |-> FDivide(a.y, b.y)]

Clamp(v, lo, hi) == IF v < lo THEN lo ELSE IF v > hi THEN hi ELSE v

\* Limit with the y coordinate left as it is.
LimitXOnly(v, limit) == [x |-> Clamp(v.x, 0 - limit, 0 + limit), y |-> v.y]

Limit(v, limit) ==
    [x |-> Clamp(v.x, 0 - limit, 0 + limit),
     y |-> Clamp(v.y, 0 - limit, 0 + limit)]

Magnitude(v) == Sqrt(v.x * v.x + v.y * v.y)

Normalize(v) ==
    LET mag == Magnitude(v)
    IN IF mag # 0 THEN VDiv(v, Vector(mag, mag)) ELSE v

Distance(a, b) == Sqrt((b.x - a.x) * (b.x - a.x) + (b.y - a.y) * (b.y - a.y))

----------------------------------------------------------------------------
(* gravity_field.rs, pixel.rs *)

GravityField(position, aoe, strength) ==
    [position |-> position, aoe |-> aoe, strength |-> strength]

InAoe(field, vector) == Distance(field.position, vector) <= field.aoe

Pixel(position) == [position |-> position, velocity |-> VectorFrom(0)]

----------------------------------------------------------------------------
(* config.rs: the configurations config.ron may hold.  Each passes the     *)
(* assertions of read_config.                                              *)

ConfigA ==
    [num_pixels |-> 1,
     phy |-> [max_velocity |-> F(10), friction |-> F(0),
              acceleration |-> F(5), gravity_field_aoe |-> F(100)]]

ConfigB ==
    [num_pixels |-> 2,
     phy |-> [max_velocity |-> F(2), friction |-> F(1),
              acceleration |-> F(3), gravity_field_aoe |-> F(45)]]

Configs == {ConfigA, ConfigB}

ConfigValid(c) ==
    /\ c.phy.max_velocity >= 0
    /\ c.phy.friction >= 0
    /\ c.phy.acceleration >= 0
    /\ c.phy.friction < c.phy.acceleration

\* read_config: any configuration the file holds that passes the assertions
\* (a missing or rejected file aborts the process: no further step).
ReadConfig == {c \in Configs : ConfigValid(c)}

----------------------------------------------------------------------------
(* The host: window sizes, cursor points, and what a frame's input can be. *)

Wide == [w |-> F(64), h |-> F(64)]

Narrow == [w |-> F(32), h |-> F(64)]

Screens == {Wide, Narrow}

P1 == Vector(F(10), F(10))

P2 == Vector(F(12), F(10))

P3 == Vector(F(11), F(10))

P4 == Vector(F(50), F(50))

MousePoints == {P1, P2, P3, P4}

\* The values rng.rand() % screen_width() and % screen_height() may take.
RandPositions == {Vector(F(0), F(50)), Vector(F(63), F(20))}

NoInput ==
    [left |-> FALSE, right |-> FALSE, middle |-> FALSE, mouse |-> P4,
     escape |-> FALSE, shift |-> FALSE, space |-> FALSE, resized |-> FALSE]

\* Buttons pressed and keys down in one frame.  update() uses the cursor
\* position only when a button is pressed (an idle cursor rests at P4), and
\* shift only when escape is.
MouseStates(points) ==
    {[left |-> l, right |-> r, middle |-> m, mouse |-> p] :
        l \in BOOLEAN, r \in BOOLEAN, m \in BOOLEAN, p \in points}

KeyStates ==
    {k \in [escape : BOOLEAN, shift : BOOLEAN, space : BOOLEAN] :
        k.shift => k.escape}

Input(ms, ks) ==
    [left |-> ms.left, right |-> ms.right, middle |-> ms.middle,
     mouse |-> ms.mouse, escape |-> ks.escape, shift |-> ks.shift,
     space |-> ks.space, resized |-> FALSE]

AnyButton(i) == i.left \/ i.right \/ i.middle

Canonical(i) == AnyButton(i) \/ i.mouse = P4

NoKeys == [escape |-> FALSE, shift |-> FALSE, space |-> FALSE]

\* Every input: any buttons with the cursor at P4, any keys.
AllInputs == {Input(ms, ks) : ms \in MouseStates({P4}), ks \in KeyStates}

OneButton(i) ==
    (IF i.left THEN 1 ELSE 0) + (IF i.right THEN 1 ELSE 0)
        + (IF i.middle THEN 1 ELSE 0) <= 1

\* Mouse only: at most one button, at any cursor point.
MouseInputs ==
    {i \in {Input(ms, NoKeys) : ms \in MouseStates(MousePoints)} :
        Canonical(i) /\ OneButton(i)}

\* Mouse only: at most one button, at P1 or P4.
OrderInputs ==
    {i \in {Input(ms, NoKeys) : ms \in MouseStates({P1, P4})} :
        Canonical(i) /\ OneButton(i)}

----------------------------------------------------------------------------
(* GameField *)

VARIABLES
    pixels,          \* GameField.pixels
    gravity_fields,  \* GameField.gravity_fields
    is_paused,       \* GameField.is_paused
    config,          \* GameField.config
    screen,          \* screen_width(), screen_height()
    input,           \* the buttons and keys of the current frame
    pc,              \* where the main loop is: "poll", "update", "bounds"
    frame,           \* the number of the current frame
    placed,          \* for each gravity field, the frame that placed it
    found            \* the index update()'s find returned (0: none)

vars ==
    <<pixels, gravity_fields, is_paused, config, screen, input, pc, frame,
      placed, found>>

RECURSIVE SeqsOf(_, _)
SeqsOf(S, n) ==
    IF n = 0 THEN {<<>>}
    ELSE {Append(s, e) : s \in SeqsOf(S, n - 1), e \in S}

\* populate_pixels: num_pixels pixels at random positions on the screen.
PopulatePixels(cfg, scr) ==
    LET ok == {p \in RandPositions : p.x < scr.w /\ p.y < scr.h}
    IN {[i \in 1..cfg.num_pixels |-> Pixel(ps[i])] :
            ps \in SeqsOf(ok, cfg.num_pixels)}

\* Vec::pop in place of swap_remove: the last element goes, whatever idx.
PopLast(s, idx) == [i \in 1..(Len(s) - 1) |-> s[i]]

\* Vec::swap_remove: the last element takes the place of the removed one.
SwapRemove(s, idx) ==
    [i \in 1..(Len(s) - 1) |-> IF i = idx THEN s[Len(s)] ELSE s[i]]

\* find() from the back: the last index whose field is within the tolerance.
FindFieldLast(fields, mouse_pos) ==
    LET hits == {i \in 1..Len(fields) :
                    Distance(fields[i].position, mouse_pos)
                        <= F(RemoveTolerance)}
    IN IF hits = {} THEN 0
       ELSE CHOOSE i \in hits : \A j \in hits : i >= j

\* iter().enumerate().find(): the first index whose field is within the
\* tolerance of the cursor, 0 when there is none.
FindField(fields, mouse_pos) ==
    LET hits == {i \in 1..Len(fields) :
                    Distance(fields[i].position, mouse_pos)
                        <= F(RemoveTolerance)}
    IN IF hits = {} THEN 0
       ELSE CHOOSE i \in hits : \A j \in hits : i <= j

\* The button chain with the right button tested first.
MouseBranchRightFirst(i) ==
    IF i.right THEN "repel"
    ELSE IF i.left THEN "attract"
    ELSE IF i.middle THEN "remove"
    ELSE "none"

\* The button chain of update(): left, else right, else middle.
MouseBranch(i) ==
    IF i.left THEN "attract"
    ELSE IF i.right THEN "repel"
    ELSE IF i.middle THEN "remove"
    ELSE "none"

\* Escape clears the fields whether or not shift is held.
ClearsFieldsAlways(i) == i.escape

\* Escape clears the gravity fields unless a shift key is down.
ClearsFields(i) == i.escape /\ ~i.shift

\* Space pressed, the flag kept.
TogglePauseLost(i, paused) == paused

\* Space toggles is_paused.
TogglePause(i, paused) == IF i.space THEN ~paused ELSE paused

\* The physics loop runs even when paused.
SkipTickNever(paused) == FALSE

\* update() returns before the physics loop when paused.
SkipTick(paused) == paused

\* The unit vector from the field to the position.
DirectionAway(field, position) == Normalize(VSub(position, field.position))

\* The unit vector from the position to the field.
Direction(field, position) == Normalize(VSub(field.position, position))

RECURSIVE Acceleration(_, _, _)
\* The sum, over the first n fields, of the pull of each field the position
\* is in the area of effect of.
Acceleration(fields, n, position) ==
    IF n = 0 THEN Vector(0, 0)
    ELSE LET field == fields[n]
             rest == Acceleration(fields, n - 1, position)
         IN IF ~InAoe(field, position) THEN rest
            ELSE VAdd(rest,
                      VMul(Direction(field, position),
                           VectorFrom(field.strength)))

\* One pixel's step of the physics loop.
TickPixel(px, fields, cfg) ==
    LET acceleration == Acceleration(fields, Len(fields), px.position)
        friction == VMul(VMul(Normalize(px.velocity), VectorFrom(F(0 - 1))),
                         VectorFrom(cfg.phy.friction))
        velocity == Limit(VAdd(VAdd(px.velocity, acceleration), friction),
                          cfg.phy.max_velocity)
    IN [position |-> VAdd(px.position, velocity), velocity |-> velocity]

Tick(pxs, fields, cfg) ==
    [i \in 1..Len(pxs) |-> TickPixel(pxs[i], fields, cfg)]

Init ==
    /\ config \in ReadConfig
    /\ screen = Wide
    /\ pixels \in PopulatePixels(config, screen)
    /\ gravity_fields = <<>>
    /\ is_paused = FALSE
    /\ input = NoInput
    /\ pc = "poll"
    /\ frame = 0
    /\ placed = <<>>
    /\ found = 0

\* next_frame(): the host polls the input of the next frame; the window may
\* have been resized.
Poll(inputs, screens, cap) ==
    /\ pc = "poll"
    /\ frame < cap
    /\ \E i \in inputs, s \in screens \cup {screen} :
        /\ input' = [i EXCEPT !.resized = (s # screen)]
        /\ screen' = s
    /\ frame' = frame + 1
    /\ pc' = "update"
    /\ UNCHANGED <<pixels, gravity_fields, is_paused, config, placed, found>>

\* GameField::update
Update ==
    /\ pc = "update"
    /\ LET mouse_pos == input.mouse
           branch == MouseBranch(input)
           idx == IF branch = "remove"
                  THEN FindField(gravity_fields, mouse_pos) ELSE 0
           fields1 ==
               CASE branch = "attract" ->
                        Append(gravity_fields,
                               GravityField(mouse_pos,
                                            config.phy.gravity_field_aoe,
                                            config.phy.acceleration))
                 [] branch = "repel" ->
                        Append(gravity_fields,
                               GravityField(mouse_pos,
                                            config.phy.gravity_field_aoe,
                                            0 - config.phy.acceleration))
                 [] branch = "remove" /\ idx # 0 ->
                        SwapRemove(gravity_fields, idx)
                 [] OTHER -> gravity_fields
           placed1 ==
               CASE branch \in {"attract", "repel"} -> Append(placed, frame)
                 [] branch = "remove" /\ idx # 0 -> SwapRemove(placed, idx)
                 [] OTHER -> placed
           clear == ClearsFields(input)
           fields2 == IF clear THEN <<>> ELSE fields1
           paused2 == TogglePause(input, is_paused)
       IN \E cfg \in (IF input.escape THEN ReadConfig ELSE {config}) :
          \E pxs \in (IF input.escape THEN PopulatePixels(cfg, screen)
                                      ELSE {pixels}) :
            /\ config' = cfg
            /\ gravity_fields' = fields2
            /\ placed' = IF clear THEN <<>> ELSE placed1
            /\ found' = idx
            /\ is_paused' = paused2
            /\ pixels' = IF SkipTick(paused2) THEN pxs
                                            ELSE Tick(pxs, fields2, cfg)
    /\ pc' = "bounds"
    /\ UNCHANGED <<screen, input, frame>>

\* keep_within_bounds' clamp in place of the wrap.
WrapClamp(c, bound) == Clamp(c, 0, bound)

\* One coordinate of snake_bounds.
Wrap(c, bound) == IF c > bound THEN 0 ELSE IF c < 0 THEN bound ELSE c

\* GameField::snake_bounds
SnakeBounds ==
    /\ pc = "bounds"
    /\ pixels' = [i \in 1..Len(pixels) |->
                    [pixels[i] EXCEPT
                        !.position = Vector(Wrap(pixels[i].position.x, screen.w),
                                            Wrap(pixels[i].position.y, screen.h))]]
    /\ pc' = "poll"
    /\ UNCHANGED <<gravity_fields, is_paused, config, screen, input, frame,
                   placed, found>>

Next ==
    \/ Poll(AllInputs, Screens, MaxFrames)
    \/ Update
    \/ SnakeBounds

Spec == Init /\ [][Next]_vars

NextFields ==
    \/ Poll(MouseInputs, {}, FieldFrames)
    \/ Update
    \/ SnakeBounds

SpecFields == Init /\ [][NextFields]_vars

NextOrder ==
    \/ Poll(OrderInputs, {}, OrderFrames)
    \/ Update
    \/ SnakeBounds

SpecOrder == Init /\ [][NextOrder]_vars

----------------------------------------------------------------------------
(* Properties.  Each is stated from the pre- and post-state of a step of   *)
(* the main loop, with exact integer arithmetic on the fixed-point values. *)

UpdateStep == pc = "update" /\ pc' = "bounds"

BoundsStep == pc = "bounds" /\ pc' = "poll"

\* The squared distance between two points.
Dist2(a, b) == (b.x - a.x) * (b.x - a.x) + (b.y - a.y) * (b.y - a.y)

\* The distance between a and b is at most r.
Within(a, b, r) == Dist2(a, b) <= r * r

\* The indices of the fields within the removal tolerance of the cursor.
Hits == {i \in 1..Len(gravity_fields) :
            Within(gravity_fields[i].position, input.mouse, F(RemoveTolerance))}

\* The middle button's branch of update() is taken, and no reset follows.
RemovalStep ==
    UpdateStep /\ input.middle /\ ~input.left /\ ~input.right /\ ~input.escape

Count(s, v) == Cardinality({i \in 1..Len(s) : s[i] = v})

InBox(v, m) == 0 - m <= v.x /\ v.x <= m /\ 0 - m <= v.y /\ v.y <= m

\* C1: after any tick every pixel's velocity lies within -max_velocity and
\* max_velocity on each axis, and the position has moved by that clamped
\* velocity.
C1_VelocityClamped ==
    [][(UpdateStep /\ ~is_paused') =>
          \A i \in 1..Len(pixels') :
              /\ InBox(pixels'[i].velocity, config'.phy.max_velocity)
              /\ ~input.escape =>
                    pixels'[i].position
                        = VAdd(pixels[i].position, pixels'[i].velocity)]_vars

\* C1 witness: after a tick with a field in the arena, a pixel moves at the
\* maximum velocity on the y axis.
C1_Witness ==
    /\ pc = "bounds" /\ ~is_paused /\ gravity_fields # <<>>
    /\ \E i \in 1..Len(pixels) :
          /\ Abs(pixels[i].velocity.y) = config.phy.max_velocity
          /\ Abs(pixels[i].velocity.x) < config.phy.max_velocity
          /\ pixels[i].velocity.x # 0

\* C2: a removal removes exactly the lowest-index field within the tolerance
\* of the cursor and keeps every other field; with no field within the
\* tolerance the fields are unchanged; with fields at (10,10), (12,10) and
\* the cursor at (11,10), exactly the field at (12,10) remains.
C2_RemoveFirstMatch ==
    [][RemovalStep =>
          /\ Hits = {} => gravity_fields' = gravity_fields
          /\ Hits # {} =>
                LET k == CHOOSE i \in Hits : \A j \in Hits : i <= j
                IN /\ Len(gravity_fields') = Len(gravity_fields) - 1
                   /\ \A n \in 1..Len(gravity_fields) :
                         LET v == gravity_fields[n]
                         IN Count(gravity_fields', v)
                              = Count(gravity_fields, v)
                                  - (IF v = gravity_fields[k] THEN 1 ELSE 0)
          /\ ( /\ Len(gravity_fields) = 2
               /\ gravity_fields[1].position = Vector(F(10), F(10))
               /\ gravity_fields[2].position = Vector(F(12), F(10))
               /\ input.mouse = Vector(F(11), F(10)) )
             => /\ Len(gravity_fields') = 1
                /\ gravity_fields'[1] = gravity_fields[2]]_vars

\* C2 witness: the middle button at (11,10) found the field at index 1, and
\* the field placed second, at (12,10), is the one that remains.
C2_Witness ==
    /\ pc = "bounds" /\ input.middle /\ found = 1
    /\ input.mouse = Vector(F(11), F(10))
    /\ Len(gravity_fields) = 1
    /\ gravity_fields[1].position = Vector(F(12), F(10))
    /\ placed = <<2>>

\* C3: a removal removes, among the fields within the tolerance of the
\* cursor, the one placed earliest.
C3_RemovesFirstPlaced ==
    [][(RemovalStep /\ found' # 0) =>
          \A j \in Hits : placed[found'] <= placed[j]]_vars

\* C4 as claimed: a removal removes the field nearest to the cursor among
\* those within the tolerance.
C4_RemovesNearest ==
    [][(RemovalStep /\ found' # 0) =>
          \A j \in Hits :
              Dist2(gravity_fields[found'].position, input.mouse)
                  <= Dist2(gravity_fields[j].position, input.mouse)]_vars

\* C4 amended: a removal finds a field exactly when one is within the
\* tolerance, and the one it finds is the first of them in storage order;
\* that one is the nearest when it is the only one within the tolerance.
C4_RemovesFirstWithin ==
    [][RemovalStep =>
          /\ (found' = 0) = (Hits = {})
          /\ found' # 0 =>
                /\ found' \in Hits
                /\ \A j \in Hits : found' <= j
                /\ Cardinality(Hits) = 1 =>
                      \A j \in 1..Len(gravity_fields) :
                          Within(gravity_fields[j].position, input.mouse,
                                 F(RemoveTolerance))
                              => j = found']_vars

\* C4 witness: a removal with the cursor on the second of two fields within
\* the tolerance took the first: the field under the cursor remains.
C4_Witness ==
    /\ pc = "bounds" /\ input.middle /\ found = 1
    /\ Len(gravity_fields) = 1
    /\ gravity_fields[1].position = input.mouse
    /\ placed = <<2>>

C6_PausedFrozen ==
    [][/\ (UpdateStep /\ is_paused /\ ~input.space /\ ~input.escape)
            => pixels' = pixels
       /\ (BoundsStep /\ is_paused /\ ~input.space /\ ~input.escape)
            => pixels' = pixels]_vars

\* C6 amended: while paused, in a frame without a reset update() leaves
\* every pixel as it is, whatever fields are placed or removed; the boundary
\* pass leaves every velocity and every coordinate within the screen as it
\* is, and leaves every pixel as it is when the window was not resized since
\* the frame before.
C6_PausedFrozenUnlessResized ==
    [][/\ (UpdateStep /\ is_paused' /\ ~input.escape) => pixels' = pixels
       /\ (BoundsStep /\ is_paused /\ ~input.escape) =>
            /\ Len(pixels') = Len(pixels)
            /\ \A i \in 1..Len(pixels) :
                  /\ pixels'[i].velocity = pixels[i].velocity
                  /\ (0 <= pixels[i].position.x
                        /\ pixels[i].position.x <= screen.w)
                       => pixels'[i].position.x = pixels[i].position.x
                  /\ (0 <= pixels[i].position.y
                        /\ pixels[i].position.y <= screen.h)
                       => pixels'[i].position.y = pixels[i].position.y
            /\ ~input.resized => pixels' = pixels]_vars

\* C6 witness: the second of two paused frames placed a field whose area of
\* effect holds a pixel, and the pixel is still at rest after the frame.
C6_Witness ==
    /\ pc = "poll" /\ frame = 2 /\ is_paused /\ ~input.space
    /\ ~input.escape /\ ~input.resized /\ input.left
    /\ placed # <<>> /\ placed[Len(placed)] = 2
    /\ \E i \in 1..Len(pixels) :
          /\ pixels[i].velocity = Vector(0, 0)
          /\ Within(gravity_fields[Len(gravity_fields)].position,
                    pixels[i].position, config.phy.gravity_field_aoe)

\* C7: the boundary pass sets a coordinate above the screen's bound to 0,
\* one below 0 to the bound, and leaves the others; afterwards every pixel
\* is within the screen, and no velocity has changed.
C7_SnakeBounds ==
    [][BoundsStep =>
          /\ Len(pixels') = Len(pixels)
          /\ \A i \in 1..Len(pixels) :
                LET p == pixels[i].position
                    q == pixels'[i].position
                IN /\ p.x > screen.w => q.x = 0
                   /\ p.x < 0 => q.x = screen.w
                   /\ (0 <= p.x /\ p.x <= screen.w) => q.x = p.x
                   /\ p.y > screen.h => q.y = 0
                   /\ p.y < 0 => q.y = screen.h
                   /\ (0 <= p.y /\ p.y <= screen.h) => q.y = p.y
                   /\ 0 <= q.x /\ q.x <= screen.w
                   /\ 0 <= q.y /\ q.y <= screen.h
                   /\ pixels'[i].velocity = pixels[i].velocity]_vars

\* C7 witness: after a boundary pass a pixel moving right is at x = 0 (it
\* had left the screen on the right).
C7_Witness ==
    /\ pc = "poll" /\ frame >= 1 /\ ~is_paused /\ ~input.resized
    /\ ~input.escape
    /\ \E i \in 1..Len(pixels) :
          pixels[i].position.x = 0 /\ pixels[i].velocity.x > 0

\* C8: one tick of a pixel at rest with a single field in range moves it
\* toward an attracting field and away from a repelling one, by the clamped
\* velocity; with friction 0, acceleration 5, max_velocity 10, area of effect
\* 100, a field of strength 5 at (50,50) and the pixel at (0,50), the
\* velocity becomes (5,0) and the position (5,50).
C8_OneTick ==
    [][(UpdateStep /\ ~is_paused' /\ ~input.escape
            /\ Len(gravity_fields') = 1) =>
          LET field == gravity_fields'[1]
          IN \A i \in 1..Len(pixels) :
                (/\ pixels[i].velocity = Vector(0, 0)
                 /\ Within(field.position, pixels[i].position, field.aoe)) =>
                   LET d == VSub(field.position, pixels[i].position)
                       v == pixels'[i].velocity
                   IN /\ field.strength > 0 => (v.x * d.x >= 0 /\ v.y * d.y >= 0)
                      /\ field.strength < 0 => (v.x * d.x <= 0 /\ v.y * d.y <= 0)
                      /\ d # Vector(0, 0) => v # Vector(0, 0)
                      /\ pixels'[i].position = VAdd(pixels[i].position, v)
                      /\ ( /\ config.phy.friction = F(0)
                           /\ config.phy.acceleration = F(5)
                           /\ config.phy.max_velocity = F(10)
                           /\ field = GravityField(Vector(F(50), F(50)),
                                                   F(100), F(5))
                           /\ pixels[i].position = Vector(F(0), F(50)) )
                         => /\ v = Vector(F(5), F(0))
                            /\ pixels'[i].position = Vector(F(5), F(50))]_vars

\* C8 witness: the scenario's state after its one tick.
C8_Witness ==
    /\ pc = "bounds" /\ frame = 1 /\ ~is_paused
    /\ config.phy.friction = F(0) /\ config.phy.acceleration = F(5)
    /\ config.phy.max_velocity = F(10)
    /\ gravity_fields = <<GravityField(Vector(F(50), F(50)), F(100), F(5))>>
    /\ pixels = <<[position |-> Vector(F(5), F(50)),
                   velocity |-> Vector(F(5), F(0))]>>

\* The field the left (sign 1) or right (sign -1) button places.
PlacedField(sign) ==
    [position |-> input.mouse, aoe |-> config.phy.gravity_field_aoe,
     strength |-> sign * config.phy.acceleration]

\* C9: a frame runs update() and then the boundary pass, once each, and
\* update() applies the mouse, then the reset, then the pause toggle, then
\* the tick only if the toggled flag is false: a placement and a reset act
\* whatever the flag; a field placed in the frame of a reset without shift
\* is gone after it; the toggle pressed in a frame decides that frame's tick;
\* a field placed in an unpaused frame moves the pixels it reaches in that
\* frame.
C9_FrameOrder ==
    [][/\ pc = "poll" => pc' = "update" /\ frame' = frame + 1
       /\ pc = "update" => pc' = "bounds" /\ frame' = frame
       /\ pc = "bounds" => pc' = "poll" /\ frame' = frame
       /\ UpdateStep =>
            /\ is_paused' = (is_paused # input.space)
            /\ (input.escape /\ ~input.shift) => gravity_fields' = <<>>
            /\ input.escape => Len(pixels') = config'.num_pixels
            /\ (input.left /\ ~(input.escape /\ ~input.shift))
                  => gravity_fields' = Append(gravity_fields, PlacedField(1))
            /\ (is_paused' /\ ~input.escape) => pixels' = pixels
            /\ (~is_paused' /\ ~input.escape /\ gravity_fields = <<>>
                    /\ input.left) =>
                  \A i \in 1..Len(pixels) :
                      (/\ pixels[i].velocity = Vector(0, 0)
                       /\ Within(input.mouse, pixels[i].position,
                                 config.phy.gravity_field_aoe))
                          => /\ pixels'[i].velocity # Vector(0, 0)
                             /\ pixels'[i].position # pixels[i].position]_vars

\* C9 witness: space was pressed while paused together with the left
\* button; the field placed in that frame has already moved a pixel.
C9_Witness ==
    /\ pc = "bounds" /\ frame = 2 /\ input.space /\ input.left
    /\ ~input.escape /\ ~is_paused
    /\ Len(gravity_fields) = 1 /\ placed = <<2>>
    /\ \E i \in 1..Len(pixels) : pixels[i].velocity # Vector(0, 0)

\* C10: update() applies at most one mouse action, the left button before
\* the right before the middle: without a reset the number of fields changes
\* by at most one, and a placed field has the cursor's position, the
\* configured area of effect and strength +acceleration (left) or
\* -acceleration (right).
C10_OneMouseAction ==
    [][UpdateStep =>
          /\ ~input.escape =>
                Len(gravity_fields') - Len(gravity_fields) \in {0 - 1, 0, 1}
          /\ ~(input.escape /\ ~input.shift) =>
                /\ input.left
                      => gravity_fields'
                            = Append(gravity_fields, PlacedField(1))
                /\ (~input.left /\ input.right)
                      => gravity_fields'
                            = Append(gravity_fields, PlacedField(0 - 1))
                /\ (~input.left /\ ~input.right /\ input.middle)
                      => /\ Len(gravity_fields') <= Len(gravity_fields)
                         /\ Len(gravity_fields') >= Len(gravity_fields) - 1
                         /\ \A n \in 1..Len(gravity_fields') :
                               \E m \in 1..Len(gravity_fields) :
                                   gravity_fields'[n] = gravity_fields[m]
                /\ ~AnyButton(input) => gravity_fields' = gravity_fields]_vars

\* C10 witness: all three buttons were pressed over an attracting field; a
\* second attracting field was placed and none removed.
C10_Witness ==
    /\ pc = "bounds" /\ frame = 2
    /\ input.left /\ input.right /\ input.middle /\ ~input.escape
    /\ Len(gravity_fields) = 2 /\ placed = <<1, 2>>
    /\ gravity_fields[1].position = gravity_fields[2].position
    /\ gravity_fields[2].strength > 0

====
